---- MODULE Spec2Model ----
(***************************************************************************)
(* Model of hn_into_llm (src/main.py): the favourites pagination walker     *)
(* (retrieve_user_favorite_links / get_item_links_from_page), the thread    *)
(* flattener and renderer (fetch_hn_thread_markdown) and the driver (main). *)
(*                                                                          *)
(* Text is a sequence of atoms: the atom NL is one "\n", any other atom is  *)
(* a piece of text that holds no line break.                                *)
(***************************************************************************)
EXTENDS Integers, Sequences, FiniteSets, TLC

\* ------------------------------------------------------------------ bounds
MaxPages == 2      \* listing pages the server holds
MaxLimit == 2      \* limits tried: 0..MaxLimit
MaxAnchors == 2    \* anchors on a listing page
MaxLinks == 2      \* length of the link list main receives
MaxRows  == 2      \* comment rows on a thread page
MaxDepth == 1      \* indentation widths up to 40*MaxDepth + 39

\* --------------------------------------------------------------- constants
IndentUnit == 40
\* an optional value: None, or Some(x)
None == <<>>
Some(x) == <<x>>
The(o) == o[1]
NL == "\n"
BASE_URL == "https://news.ycombinator.com"
USER == "u"

\* --------------------------------------------------------- sequence helpers
Range(s) == {s[k] : k \in 1..Len(s)}

Min(a, b) == IF a <= b THEN a ELSE b

SeqsUpTo(S, n) == UNION {[1..k -> S] : k \in 0..n}

\* every order in which a set can be iterated
Orderings(S) == {s \in [1..Cardinality(S) -> S] : Range(s) = S}

RECURSIVE Concat(_)
Concat(ss) == IF ss = <<>> THEN <<>> ELSE Head(ss) \o Concat(Tail(ss))

\* sep.join(parts)
RECURSIVE Join(_, _)
Join(sep, parts) ==
  IF parts = <<>> THEN <<>>
  ELSE IF Len(parts) = 1 THEN parts[1]
  ELSE parts[1] \o sep \o Join(sep, Tail(parts))

\* ------------------------------------------------------------ listing pages
Ids == {"1", "2"}

\* href attributes of the item anchors of a listing page, with and without the
\* leading slash
Hrefs == {<<"/", "item?id=", "1">>, <<"item?id=", "1">>, <<"item?id=", "2">>}

\* re.compile(r"^/?item\?id=\d+$")
pattern(h) ==
  \/ Len(h) = 2 /\ h[1] = "item?id=" /\ h[2] \in Ids
  \/ Len(h) = 3 /\ h[1] = "/" /\ h[2] = "item?id=" /\ h[3] \in Ids

\* str.lstrip("/")
RECURSIVE lstrip(_)
lstrip(h) == IF h # <<>> /\ Head(h) = "/" THEN lstrip(Tail(h)) ELSE h

\* BASE_URL + "/" + a["href"].lstrip("/")
absolute(h) == <<BASE_URL, "/">> \o lstrip(h)

OkPages == [kind : {"ok"}, anchors : SeqsUpTo(Hrefs, MaxAnchors), more : BOOLEAN]

ErrorPages == [kind : {"nouser", "httperr"}, anchors : {<<>>}, more : {FALSE}]

ListingPages == OkPages \cup ErrorPages

\* the server's favourites pages; page k's "More" link, when present, leads to
\* page k+1, and the last page has none
Servers ==
  {s \in SeqsUpTo(ListingPages, MaxPages) : Len(s) >= 1 /\ ~s[Len(s)].more}

\* ------------------------------------------------------------- thread pages
Widths == {IndentUnit * d + r : d \in 0..MaxDepth, r \in {0, IndentUnit - 1}}

\* td.ind and its img: absent cell, cell without image, image of some width
Indents ==
  [ind : {"none", "noimg"}, width : {0}] \cup [ind : {"img"}, width : Widths]

TextNode(t) == [tag |-> "text", cls |-> "", text |-> t]

\* div.comment containers: None when the row has none, else its children
Containers ==
  { None,
    Some(<<TextNode(<<" ", "hi", NL>>)>>),
    Some(<< [tag |-> "span", cls |-> "unvoted", text |-> <<"[-]">>],
            TextNode(<<"reply", NL, "line2">>),
            [tag |-> "div", cls |-> "reply", text |-> <<"reply">>] >>) }

Authors == {None, Some("alice")}

Rows ==
  {[hasid |-> TRUE, ind |-> n.ind, width |-> n.width, author |-> a, comment |-> c] :
      n \in Indents, a \in Authors, c \in Containers}
  \cup {[hasid |-> FALSE, ind |-> "none", width |-> 0, author |-> None,
         comment |-> Some(<<TextNode(<<"hi">>)>>)]}

HttpErrorThread == [status |-> "httperr", title |-> None, rows |-> <<>>]

ThreadPages ==
  [status : {"ok"}, title : {None, Some("A")}, rows : SeqsUpTo(Rows, MaxRows)]
    \cup {HttpErrorThread}

\* the thread pages main is run against: at most one row, no indentation cell
MainRows == {r \in Rows : r.ind = "none"}

MainPages ==
  [status : {"ok"}, title : {None, Some("A")}, rows : SeqsUpTo(MainRows, 1)]
    \cup {HttpErrorThread}

\* ------------------------------------------------- fetch_hn_thread_markdown
CONTEXT_PROMPT ==
  << NL, "## Context", NL, NL,
     "The following is a Hacker News thread in markdown format. The comments discuss a", NL,
     "certain link, of which the content (besides the title) is not included here. The", NL,
     "comments are indented according to the level of the comment, with the top-level", NL,
     "comment being unindented.", NL >>

Whitespace == {NL, " ", "  "}

RECURSIVE lstrip_ws(_)
lstrip_ws(t) == IF t # <<>> /\ Head(t) \in Whitespace THEN lstrip_ws(Tail(t)) ELSE t

RECURSIVE rstrip_ws(_)
rstrip_ws(t) ==
  IF t # <<>> /\ t[Len(t)] \in Whitespace THEN rstrip_ws(SubSeq(t, 1, Len(t) - 1)) ELSE t

\* str.strip()
strip(t) == rstrip_ws(lstrip_ws(t))

\* str.splitlines(): no empty last line after a final line break
RECURSIVE splitlines(_)
splitlines(t) ==
  IF t = <<>> THEN <<>>
  ELSE LET brk == {k \in 1..Len(t) : t[k] = NL} IN
       IF brk = {} THEN <<t>>
       ELSE LET k == CHOOSE m \in brk : \A n \in brk : m <= n IN
            <<SubSeq(t, 1, k - 1)>> \o splitlines(SubSeq(t, k + 1, Len(t)))

\* title.text, or f"hn_{url.split('=')[-1]}"
title_text(link, page) ==
  IF page.title # None THEN <<The(page.title)>> ELSE <<"hn_", link[Len(link)]>>

\* int(indent_td.img["width"]) if indent_td and indent_td.img else 0
indent_px(row) == IF row.ind = "img" THEN row.width ELSE 0

\* variant: round(indent_px / 40)
indent_level_rounded(px) == (px + IndentUnit \div 2) \div IndentUnit

\* indent_px // 40
indent_level(px) == px \div IndentUnit

author_text(row) == IF row.author # None THEN The(row.author) ELSE "[deleted]"

\* the container's children left by decompose() of div/span.reply, div/span.unvoted
RECURSIVE decompose(_)
decompose(nodes) ==
  IF nodes = <<>> THEN <<>>
  ELSE IF Head(nodes).tag \in {"div", "span"} /\ Head(nodes).cls \in {"reply", "unvoted"}
       THEN decompose(Tail(nodes))
       ELSE <<Head(nodes)>> \o decompose(Tail(nodes))

\* commtext_td.get_text("\n")
get_text(nodes) == Join(<<NL>>, [k \in 1..Len(nodes) |-> nodes[k].text])

comment_html(row) == strip(get_text(decompose(The(row.comment))))

\* row["id"] raises KeyError, commtext_td.find_all raises AttributeError on None
row_raises(row) == ~row.hasid \/ row.comment = None

\* the tuple appended to comments for one row
comment_of(row) ==
  [depth |-> indent_level(indent_px(row)), author |-> author_text(row),
   body |-> comment_html(row)]

\* "  " * indent
indent_str(n) == [k \in 1..n |-> "  "]

\* the md_lines entries of one comment
comment_lines(c) ==
  << indent_str(c.depth) \o <<"- **", c.author, "**:", NL>> >>
  \o [k \in 1..Len(splitlines(c.body)) |->
        indent_str(c.depth) \o <<"  ">> \o splitlines(c.body)[k]]
  \o << <<>> >>

md_lines(title, comments) ==
  << <<"# ">> \o title \o <<NL, NL>>,
     strip(CONTEXT_PROMPT) \o <<NL, NL>>,
     <<"## Comments", NL, NL>> >>
  \o Concat([k \in 1..Len(comments) |-> comment_lines(comments[k])])

render(title, comments) == Join(<<NL>>, md_lines(title, comments))

fetch_raises(page) ==
  page.status # "ok" \/ \E k \in 1..Len(page.rows) : row_raises(page.rows[k])

comments_of(page) == [k \in 1..Len(page.rows) |-> comment_of(page.rows[k])]

\* what the call returns when it does not raise
fetch_hn_thread_markdown(link, page) ==
  [title |-> title_text(link, page),
   comments |-> comments_of(page),
   md |-> render(title_text(link, page), comments_of(page))]

\* ------------------------------------------------------------------- state
VARIABLES
  server,      \* the favourites pages the server holds
  limit,       \* retrieve_user_favorite_links' limit
  url,         \* next listing page to fetch: its number, 0 for None
  all_links,   \* the accumulator
  page_count,
  fetched,     \* listing pages requested so far, in request order
  extended,    \* everything all_links.extend was given, in order, untruncated
  pc,          \* "walk", "save", "returned", "raised"; "threads", "done", "failed"
  tmpfile,     \* contents of the hn_comment_urls_ file, None before it is written
  printed,     \* the file's path was printed
  links,       \* the list retrieve_user_favorite_links returned, None before
  i,           \* main's position in links
  files,       \* the output directory: one record per file name
  requested,   \* thread links requested so far, in request order
  saved,       \* per document written: its link, file name and content
  tpage,       \* a thread page handed to fetch_hn_thread_markdown
  tout         \* what fetch_hn_thread_markdown made of tpage, None before

vars == <<server, limit, url, all_links, page_count, fetched, extended, pc,
          tmpfile, printed, links, i, files, requested, saved, tpage, tout>>

walkVars == <<server, limit, url, all_links, page_count, fetched, extended,
              tmpfile, printed, links>>

mainVars == <<i, files, requested, saved>>

threadVars == <<tpage, tout>>

\* ------------------------------------------------- get_item_links_from_page
\* requests.get(url): the page the server holds there, a 404 where it holds none
get(u) ==
  IF u \in 1..Len(server) THEN server[u]
  ELSE [kind |-> "httperr", anchors |-> <<>>, more |-> FALSE]

\* variant: the sentinel text is never looked at
user_exists_unchecked(page) == TRUE

\* soup.text != "No such user."
user_exists(page) == page.kind # "nouser"

\* requests.get(url); resp.raise_for_status()
raise_for_status(page) == page.kind = "httperr"

\* the set comprehension over soup.find_all("a", href=pattern)
item_links(page) ==
  {absolute(page.anchors[k]) : k \in {j \in 1..Len(page.anchors) : pattern(page.anchors[j])}}

\* variant: soup.find("a") without string="More"
next_page_any_anchor(page, n) == IF page.more \/ page.anchors # <<>> THEN n + 1 ELSE 0

\* soup.find("a", string="More"): the next page's number, 0 for None
next_page(page, n) == IF page.more THEN n + 1 ELSE 0

\* --------------------------------------------- retrieve_user_favorite_links
\* variant: len(all_links) > limit
ReachedLimitStrict(n, lim) == n > lim

\* len(all_links) >= limit
ReachedLimit(n, lim) == n >= lim

\* variant: the slice is left out
TruncateNothing(s, lim) == s

\* all_links[:limit], limit >= 0
Truncate(s, lim) == SubSeq(s, 1, Min(lim, Len(s)))

Init ==
  /\ server \in Servers
  /\ limit \in 0..MaxLimit
  /\ url = 1
  /\ all_links = <<>>
  /\ page_count = 0
  /\ fetched = <<>>
  /\ extended = <<>>
  /\ pc = "walk"
  /\ tmpfile = None
  /\ printed = FALSE
  /\ links = None
  /\ i = 0
  /\ files = {}
  /\ requested = <<>>
  /\ saved = <<>>
  /\ tpage = None
  /\ tout = None

\* one turn of the while loop whose fetch answers with a non-2xx status
FetchPageHttpError ==
  /\ pc = "walk" /\ url # 0
  /\ raise_for_status(get(url))
  /\ page_count' = page_count + 1
  /\ fetched' = Append(fetched, url)
  /\ pc' = "raised"
  /\ UNCHANGED <<server, limit, url, all_links, extended, tmpfile, printed, links>>
  /\ UNCHANGED <<mainVars, threadVars>>

\* one turn of the while loop whose page is the "No such user." page
FetchPageNoUser ==
  /\ pc = "walk" /\ url # 0
  /\ ~raise_for_status(get(url))
  /\ ~user_exists(get(url))
  /\ page_count' = page_count + 1
  /\ fetched' = Append(fetched, url)
  /\ pc' = "raised"
  /\ UNCHANGED <<server, limit, url, all_links, extended, tmpfile, printed, links>>
  /\ UNCHANGED <<mainVars, threadVars>>

\* one turn of the while loop on a page that parses: extend, then the limit test
FetchPageOk ==
  /\ pc = "walk" /\ url # 0
  /\ ~raise_for_status(get(url))
  /\ user_exists(get(url))
  /\ page_count' = page_count + 1
  /\ fetched' = Append(fetched, url)
  /\ url' = next_page(get(url), url)
  /\ \E ext \in Orderings(item_links(get(url))) :
       /\ extended' = extended \o ext
       /\ IF ReachedLimit(Len(all_links \o ext), limit)
            THEN /\ all_links' = Truncate(all_links \o ext, limit)
                 /\ pc' = "save"
            ELSE /\ all_links' = all_links \o ext
                 /\ pc' = IF url' # 0 THEN "walk" ELSE "save"
  /\ UNCHANGED <<server, limit, tmpfile, printed, links>>
  /\ UNCHANGED <<mainVars, threadVars>>

\* after the loop: write the links file, print its name, return
SaveLinks ==
  /\ pc = "save"
  /\ tmpfile' = Some(all_links)
  /\ printed' = TRUE
  /\ links' = Some(all_links)
  /\ pc' = "returned"
  /\ UNCHANGED <<server, limit, url, all_links, page_count, fetched, extended>>
  /\ UNCHANGED <<mainVars, threadVars>>

\* ---------------------------------------------------------------------- main
ItemLinks == {absolute(h) : h \in Hrefs}

\* f"{tmpdir}/{title}.md"
path(title) == <<"tmpdir", "/">> \o title \o <<".md">>

\* open(name, "w"); f.write(md): creates the file or replaces its content
write(fs, name, md) ==
  {f \in fs : f.name # name} \cup {[name |-> name, content |-> md]}

\* main just after retrieve_user_favorite_links returned some list of links
InitMain ==
  /\ links \in {Some(l) : l \in SeqsUpTo(ItemLinks, MaxLinks)}
  /\ server = <<>>
  /\ limit = MaxLinks
  /\ url = 0
  /\ all_links = The(links)
  /\ page_count = 0
  /\ fetched = <<>>
  /\ extended = The(links)
  /\ pc = "threads"
  /\ tmpfile = links
  /\ printed = TRUE
  /\ i = 1
  /\ files = {}
  /\ requested = <<>>
  /\ saved = <<>>
  /\ tpage = None
  /\ tout = None

\* variant: the same turn, had the directory been made without delete=False
ThreadRaisesAndCleansUp ==
  /\ pc = "threads" /\ i <= Len(The(links))
  /\ \E page \in MainPages : fetch_raises(page)
  /\ requested' = Append(requested, The(links)[i])
  /\ pc' = "failed"
  /\ files' = {}
  /\ UNCHANGED <<walkVars, i, saved, threadVars>>

\* one turn of main's for loop whose fetch_hn_thread_markdown call raises
ThreadRaises ==
  /\ pc = "threads" /\ i <= Len(The(links))
  /\ \E page \in MainPages : fetch_raises(page)
  /\ requested' = Append(requested, The(links)[i])
  /\ pc' = "failed"
  /\ UNCHANGED <<walkVars, i, files, saved, threadVars>>

\* one turn of main's for loop that writes the thread's document
ThreadSaved ==
  /\ pc = "threads" /\ i <= Len(The(links))
  /\ \E page \in MainPages :
       /\ ~fetch_raises(page)
       /\ LET r == fetch_hn_thread_markdown(The(links)[i], page) IN
            /\ files' = write(files, path(r.title), r.md)
            /\ saved' = Append(saved, [link |-> The(links)[i], name |-> path(r.title),
                                       content |-> r.md])
  /\ requested' = Append(requested, The(links)[i])
  /\ i' = i + 1
  /\ UNCHANGED <<walkVars, pc, threadVars>>

\* the for loop is exhausted
MainDone ==
  /\ pc = "threads" /\ i > Len(The(links))
  /\ pc' = "done"
  /\ UNCHANGED <<walkVars, mainVars, threadVars>>

NextMain ==
  \/ ThreadRaises
  \/ ThreadSaved
  \/ MainDone

SpecMain == InitMain /\ [][NextMain]_vars

\* ------------------------------------- fetch_hn_thread_markdown on one page
ThreadLink == <<BASE_URL, "/", "item?id=", "1">>

InitThread ==
  /\ tpage \in {Some(p) : p \in ThreadPages}
  /\ tout = None
  /\ pc = "thread"
  /\ server = <<>>
  /\ limit = 0
  /\ url = 0
  /\ all_links = <<>>
  /\ page_count = 0
  /\ fetched = <<>>
  /\ extended = <<>>
  /\ tmpfile = None
  /\ printed = FALSE
  /\ links = None
  /\ i = 0
  /\ files = {}
  /\ requested = <<>>
  /\ saved = <<>>

FetchThreadRaises ==
  /\ pc = "thread"
  /\ fetch_raises(The(tpage))
  /\ pc' = "faulted"
  /\ UNCHANGED <<walkVars, mainVars, threadVars>>

FetchThreadReturns ==
  /\ pc = "thread"
  /\ ~fetch_raises(The(tpage))
  /\ tout' = Some(fetch_hn_thread_markdown(ThreadLink, The(tpage)))
  /\ pc' = "rendered"
  /\ UNCHANGED <<walkVars, mainVars, tpage>>

NextThread ==
  \/ FetchThreadRaises
  \/ FetchThreadReturns

SpecThread == InitThread /\ [][NextThread]_vars

\* ---------------------------------------------- the pagination walker alone
Next ==
  \/ FetchPageHttpError
  \/ FetchPageNoUser
  \/ FetchPageOk
  \/ SaveLinks

Spec == Init /\ [][Next]_vars

\* =================================================================== claims
\* -------------------------------------------------- helpers of the formulas
NoDuplicates(s) == \A p, q \in 1..Len(s) : p # q => s[p] # s[q]

FirstIndex(s, x) == CHOOSE p \in 1..Len(s) : s[p] = x /\ \A q \in 1..(p - 1) : s[q] # x

\* the chain of listing pages: page 1 and every page a "More" link leads to
ChainLength == CHOOSE k \in 1..Len(server) :
                 ~server[k].more /\ \A j \in 1..(k - 1) : server[j].more

\* number of links found on pages 1..k, each page counted as its own set
RECURSIVE LinkCount(_)
LinkCount(k) == IF k = 0 THEN 0 ELSE LinkCount(k - 1) + Cardinality(item_links(server[k]))

TotalDiscoverable == LinkCount(ChainLength)

\* the item links of a page in document order, each at its first anchor
RECURSIVE DocumentOrder(_, _)
DocumentOrder(anchors, seen) ==
  IF anchors = <<>> THEN <<>>
  ELSE IF pattern(Head(anchors)) /\ absolute(Head(anchors)) \notin seen
       THEN <<absolute(Head(anchors))>>
              \o DocumentOrder(Tail(anchors), seen \cup {absolute(Head(anchors))})
       ELSE DocumentOrder(Tail(anchors), seen)

\* all links of the fetched pages in the order a reader meets them
Discovery == Concat([k \in 1..Len(fetched) |-> DocumentOrder(server[fetched[k]].anchors, {})])

Returned == pc = "returned"

\* C1: the returned list is never longer than the limit, and has exactly
\* limit elements when the chain's pages hold at least limit links in total.
C1_LengthWithinLimit ==
  Returned =>
    /\ Len(The(links)) <= limit
    /\ TotalDiscoverable >= limit => Len(The(links)) = limit

\* C1 witness: a result cut to a positive limit on the second page of a chain
\* that holds more links than the limit.
C1_Witness ==
  /\ Returned /\ limit > 0 /\ page_count = 2
  /\ TotalDiscoverable > limit
  /\ Len(The(links)) = limit

\* C2: the accumulated (and returned) list never holds a link twice.
C2_NoLinkTwice == NoDuplicates(all_links)

\* C3: the returned list keeps discovery order (earlier page first, document
\* order within a page), and truncation keeps the earliest discovered links.
C3_DiscoveryOrderKept ==
  Returned =>
    /\ \A a, b \in Range(The(links)) :
         FirstIndex(Discovery, a) < FirstIndex(Discovery, b)
           => FirstIndex(The(links), a) < FirstIndex(The(links), b)
    /\ \A a \in Range(The(links)) : \A b \in Range(Discovery) \ Range(The(links)) :
         FirstIndex(Discovery, a) < FirstIndex(Discovery, b)

\* C4: once a fetched listing page is the "No such user." page the walker has
\* raised: nothing is returned, and the links file is neither written nor
\* announced, whatever was accumulated before.
C4_NoSuchUserRaises ==
  (\E k \in 1..Len(fetched) : server[fetched[k]].kind = "nouser") =>
    /\ pc = "raised"
    /\ links = None
    /\ tmpfile = None
    /\ ~printed

\* C4 witness: the sentinel page is the second page, after links were found
\* on the first.
C4_Witness ==
  /\ pc = "raised" /\ fetched = <<1, 2>>
  /\ server[2].kind = "nouser"
  /\ all_links # <<>>

\* C8: when the first page has no "More" link the loop is left after exactly
\* one fetch, whatever the limit and the page's links.
C8_NoMoreLinkOnePage ==
  ~server[1].more =>
    /\ page_count <= 1 /\ Len(fetched) = page_count
    /\ page_count = 1 => pc # "walk" /\ fetched = <<1>>

\* C8 witness: a first page without "More" whose links stay below the limit,
\* on a server that holds a further page.
C8_Witness ==
  /\ Returned /\ ~server[1].more /\ Len(server) > 1
  /\ page_count = 1
  /\ 0 < Len(The(links)) /\ Len(The(links)) < limit

Terminated == pc \in {"returned", "raised"}

\* C9: pages are fetched in chain order, each once, never beyond the chain; the
\* walk always goes on until it has returned or raised; when the loop is left
\* normally at page k, k >= 1 is the first page with no "More" link or with at
\* least limit links accumulated, and the list is the first min(limit, count)
\* elements of the accumulator.
C9_StopsAtFirstStop ==
  /\ fetched = [k \in 1..page_count |-> k]
  /\ page_count <= ChainLength
  /\ Terminated \/ ENABLED Next
  /\ Terminated => page_count >= 1
  /\ pc \in {"save", "returned"} =>
       /\ page_count >= 1
       /\ ~server[page_count].more \/ LinkCount(page_count) >= limit
       /\ \A j \in 1..(page_count - 1) : server[j].more /\ LinkCount(j) < limit
       /\ Len(extended) = LinkCount(page_count)
       /\ all_links = SubSeq(extended, 1, Min(limit, Len(extended)))
  /\ Returned => The(links) = all_links

\* C9 witness: the walk stopped at page 1 with exactly limit links, while the
\* chain goes on to a page that holds further links.
C9_Witness ==
  /\ Returned /\ page_count = 1 /\ server[1].more
  /\ limit > 1 /\ Len(extended) = limit
  /\ item_links(server[2]) # {}

\* C6: when thread N fails, the documents of threads 1..N-1 are on disk as
\* written, nothing was written for thread N, and no thread after N was
\* requested.
RECURSIVE Written(_)
Written(log) ==
  IF log = <<>> THEN {}
  ELSE write(Written(SubSeq(log, 1, Len(log) - 1)), log[Len(log)].name, log[Len(log)].content)

C6_FailureKeepsEarlierDocuments ==
  pc = "failed" =>
    /\ Len(requested) = i
    /\ requested = SubSeq(The(links), 1, i)
    /\ Len(saved) = i - 1
    /\ \A k \in 1..(i - 1) : saved[k].link = The(links)[k]
    /\ files = Written(saved)

\* C6 witness: the second thread failed after the first was written.
C6_Witness == pc = "failed" /\ i = 2 /\ files # {}

\* C7: after a run without error the directory holds one document per link,
\* each with its thread's rendering.
C7_OneDocumentPerLink ==
  pc = "done" =>
    /\ Cardinality(files) = Len(The(links))
    /\ \A k \in 1..Len(saved) :
         [name |-> saved[k].name, content |-> saved[k].content] \in files

\* str.split("\n")
RECURSIVE Lines(_)
Lines(t) ==
  LET brk == {k \in 1..Len(t) : t[k] = NL} IN
  IF brk = {} THEN <<t>>
  ELSE LET k == CHOOSE m \in brk : \A n \in brk : m <= n IN
       <<SubSeq(t, 1, k - 1)>> \o Lines(SubSeq(t, k + 1, Len(t)))

Spaces(n) == [k \in 1..n |-> "  "]

\* the lines the claim gives a comment: its list-item line, its body lines,
\* one blank line
Block(c) ==
  << Spaces(c.depth) \o <<"- **", c.author, "**:">> >>
  \o [k \in 1..Len(splitlines(c.body)) |-> Spaces(c.depth + 1) \o splitlines(c.body)[k]]
  \o << <<>> >>

Rendered == pc = "rendered"

\* C5: the document's lines hold, for each comment in order, its list-item
\* line directly followed by its indented body lines and one blank line.
C5_BodyFollowsItemLine ==
  Rendered =>
    LET doc == Lines(The(tout).md)
        want == Concat([k \in 1..Len(The(tout).comments) |-> Block(The(tout).comments[k])])
    IN \E from \in 0..Len(doc) :
         /\ from + Len(want) <= Len(doc)
         /\ SubSeq(doc, from + 1, from + Len(want)) = want

\* C10: one record per row, in page order; a row's depth d satisfies
\* 40*d <= width < 40*(d+1) for the width of its indentation image, and is 0
\* without an indentation cell or image.
C10_DepthIsFloorOfWidth ==
  Rendered =>
    LET rows == The(tpage).rows
        cs == The(tout).comments
    IN /\ Len(cs) = Len(rows)
       /\ \A k \in 1..Len(rows) :
            /\ rows[k].ind = "img" =>
                 /\ IndentUnit * cs[k].depth <= rows[k].width
                 /\ rows[k].width < IndentUnit * (cs[k].depth + 1)
            /\ rows[k].ind # "img" => cs[k].depth = 0
            /\ cs[k].author = (IF rows[k].author = None THEN "[deleted]" ELSE rows[k].author[1])

\* C10 witness: a row one pixel short of depth 2, then a row without an
\* indentation cell.
C10_Witness ==
  /\ Rendered /\ Len(The(tpage).rows) = 2
  /\ The(tpage).rows[1].ind = "img" /\ The(tpage).rows[1].width = 2 * IndentUnit - 1
  /\ The(tpage).rows[2].ind = "none"
  /\ The(tout).comments[1].depth = 1 /\ The(tout).comments[2].depth = 0

====
